---- MODULE Spec2Model ----
(***************************************************************************)
(* Model of apid-core's data package (src/data/data.go): the registry of   *)
(* per-(id, version) database handles, the per-handle transaction mutex,   *)
(* the finalizer-driven teardown, and StructsFromRows.                     *)
(*                                                                         *)
(* A string that is used as a path is modelled as the sequence of its      *)
(* "/"-separated segments: "common" is <<"common">>, "./common" is         *)
(* <<".", "common">>, "" is <<"">>.                                        *)
(***************************************************************************)
EXTENDS Integers, Sequences, FiniteSets, TLC

\* ------------------------------------------------------------------ bounds
MaxHandles == 2
MaxTx == 3

Threads == {"t1", "t2", "t3"}
\* the goroutines that act in every specification; "t3" only waits in Begin
\* in SpecBeginFair
Callers == {"t1", "t2"}
NoThread == "none"

\* ------------------------------------------------------- program constants
commonDBID == <<"common">>
commonDBVersion == <<"base">>
\* config: local_storage_path and data_path (default "sqlite")
storagePath == <<"", "var">>
relativeDataPath == <<"sqlite">>

\* identities and versions the callers pass
IdArgs == {<<"common">>, <<"org1">>}
VerArgs == {<<"base">>, <<".", "base">>}

\* ----------------------------------------------------------- path package
RECURSIVE CleanSegs(_, _, _)
\* path.Clean's scan: drop "" and ".", resolve "..", keep leading ".."
\* only on a path that is not rooted
CleanSegs(segs, out, rooted) ==
    IF segs = <<>> THEN out
    ELSE LET s == Head(segs)
             rest == Tail(segs)
         IN  IF s = "" \/ s = "." THEN CleanSegs(rest, out, rooted)
             ELSE IF s = ".."
                  THEN IF Len(out) > 0 /\ out[Len(out)] # ".."
                       THEN CleanSegs(rest, SubSeq(out, 1, Len(out) - 1), rooted)
                       ELSE IF rooted THEN CleanSegs(rest, out, rooted)
                            ELSE CleanSegs(rest, Append(out, ".."), rooted)
                  ELSE CleanSegs(rest, Append(out, s), rooted)

Clean(p) ==
    IF p = <<"">> THEN <<".">>
    ELSE LET rooted == Len(p) >= 2 /\ p[1] = ""
             out == CleanSegs(p, <<>>, rooted)
         IN  IF rooted THEN <<"">> \o (IF out = <<>> THEN <<"">> ELSE out)
             ELSE IF out = <<>> THEN <<".">> ELSE out

RECURSIVE JoinSegs(_)
JoinSegs(elems) ==
    IF elems = <<>> THEN <<>>
    ELSE IF Head(elems) = <<"">> THEN JoinSegs(Tail(elems))
         ELSE Head(elems) \o JoinSegs(Tail(elems))

\* path.Join: empty elements are ignored, the rest joined by "/" and cleaned
Join(elems) ==
    LET j == JoinSegs(elems)
    IN  IF j = <<>> THEN <<"">> ELSE Clean(j)

\* path.Dir of a cleaned path with at least one "/"
Dir(p) == IF Len(p) <= 1 THEN <<".">> ELSE Clean(SubSeq(p, 1, Len(p) - 1))

VersionedDBID(id, version) == Join(<<id, version>>)

DBPath(id) == Join(<<storagePath, relativeDataPath, id, <<"sqlite3">>>>)

DataDir(versionedID) == Dir(DBPath(versionedID))

IsPrefix(p, q) == Len(p) <= Len(q) /\ SubSeq(q, 1, Len(p)) = p

Keys == {VersionedDBID(i, v) : i \in IdArgs, v \in VerArgs}

\* ------------------------------------------------------------------- state
VARIABLES
    pc,         \* per thread: where the caller is
    arg,        \* per thread: versionedID of the get/release call in progress
    ref,        \* per thread: the *ApidDb the caller holds (0: none)
    txArg,      \* per thread: the *Tx of the Commit/Rollback in progress
    sawOpen,    \* per thread: what Commit/Rollback read from tx.closed
    dbMap,      \* versionedID -> Absent | NilEntry | handle
    dbMapSync,  \* the thread that holds the write lock, or NoThread
    disk,       \* the data directories that exist
    hKey,       \* handle -> versionedID it was created for
    hMutex,     \* handle -> ApidDb.mutex is locked
    hFin,       \* handle -> "none" | "set" | "run": the finalizer of the *ApidDb
    hClosed,    \* handle -> sql.DB.Close was called
    hStop,      \* handle -> dbMapInfo.closed: "nil" or "chan"
    nextH,      \* next handle to allocate
    txH,        \* tx -> handle whose mutex the Tx holds (0: not created)
    txClosed,   \* tx -> Tx.closed
    txDone,     \* tx -> "open" | "committed" | "rolledback": the sql.Tx
    nextTx,     \* next tx to allocate
    debug,      \* config logger level is debug
    fatal,      \* the runtime stopped the process (unlock of an unlocked
                \* mutex, concurrent map access)
    ev          \* what the last step was for its caller: the call it made
                \* and the error it got back, or NoEv

regVars == <<pc, arg, ref, txArg, sawOpen, dbMap, dbMapSync, disk, hKey,
             hMutex, hFin, hClosed, hStop, nextH, txH, txClosed, txDone,
             nextTx, debug, fatal, ev>>

\* dbMap has no such key (never set, or deleted by the finalizer)
Absent == -1
\* dbMap[versionedID] = nil
NilEntry == 0

Handles == 1 .. MaxHandles
Txs == 1 .. MaxTx
NoKey == <<>>
NoEv == [t |-> NoThread, api |-> "", id |-> NoKey, version |-> NoKey,
         key |-> NoKey, err |-> ""]
Ev(t, api, id, version, key, e) ==
    [t |-> t, api |-> api, id |-> id, version |-> version, key |-> key,
     err |-> e]

Created == {h \in Handles : h < nextH}
CreatedTx == {x \in Txs : x < nextTx}

\* dbm != nil && dbm.db != nil
Live(k) == dbMap[k] \in Handles

InitRegistry ==
    /\ pc = [t \in Threads |-> "idle"]
    /\ arg = [t \in Threads |-> NoKey]
    /\ ref = [t \in Threads |-> 0]
    /\ txArg = [t \in Threads |-> 0]
    /\ sawOpen = [t \in Threads |-> FALSE]
    /\ dbMap = [k \in Keys |-> Absent]
    /\ dbMapSync = NoThread
    /\ disk = {}
    /\ hKey = [h \in Handles |-> NoKey]
    /\ hMutex = [h \in Handles |-> FALSE]
    /\ hFin = [h \in Handles |-> "none"]
    /\ hClosed = [h \in Handles |-> FALSE]
    /\ hStop = [h \in Handles |-> "nil"]
    /\ nextH = 1
    /\ txH = [x \in Txs |-> 0]
    /\ txClosed = [x \in Txs |-> FALSE]
    /\ txDone = [x \in Txs |-> "open"]
    /\ nextTx = 1
    /\ debug = FALSE
    /\ fatal = FALSE
    /\ ev = NoEv

\* --------------------------------------------------------------- get calls
\* dbVersionForID to the end of its read-locked lookup:
\* dbMapSync.RLock(); dbm := dbMap[versionedID]; dbMapSync.RUnlock();
\* if dbm != nil && dbm.db != nil { return dbm.db, nil }
Lookup(t, api, id, version) ==
    /\ dbMapSync = NoThread
    /\ ev' = Ev(t, api, id, version, VersionedDBID(id, version), "")
    /\ IF Live(VersionedDBID(id, version))
       THEN /\ ref' = [ref EXCEPT ![t] = dbMap[VersionedDBID(id, version)]]
            /\ UNCHANGED <<pc, arg>>
       ELSE /\ pc' = [pc EXCEPT ![t] = "wlock"]
            /\ arg' = [arg EXCEPT ![t] = VersionedDBID(id, version)]
            /\ UNCHANGED ref
    /\ UNCHANGED <<txArg, sawOpen, dbMap, dbMapSync, disk, hKey, hMutex, hFin,
                   hClosed, hStop, nextH, txH, txClosed, txDone, nextTx, debug,
                   fatal>>

\* return nil, fmt.Errorf("reserved ...")
Reject(t, api, id, version, what) ==
    /\ ev' = Ev(t, api, id, version, NoKey, what)
    /\ UNCHANGED <<pc, arg, ref, txArg, sawOpen, dbMap, dbMapSync, disk, hKey,
                   hMutex, hFin, hClosed, hStop, nextH, txH, txClosed, txDone,
                   nextTx, debug, fatal>>

\* a caller is between calls; it keeps at most one handle, so it asks for
\* one with its variable empty
CanCall(t) == ~fatal /\ pc[t] = "idle"

DB(t) ==
    /\ CanCall(t) /\ ref[t] = 0
    /\ Lookup(t, "DB", commonDBID, commonDBVersion)

DBForID(t, id) ==
    /\ CanCall(t) /\ ref[t] = 0
    /\ IF id = commonDBID
       THEN Reject(t, "DBForID", id, NoKey, "reserved ID")
       ELSE Lookup(t, "DBForID", id, commonDBVersion)

DBVersion(t, version) ==
    /\ CanCall(t) /\ ref[t] = 0
    /\ IF version = commonDBVersion
       THEN Reject(t, "DBVersion", NoKey, version, "reserved version")
       ELSE Lookup(t, "DBVersion", commonDBID, version)

DBVersionForID(t, id, version) ==
    /\ CanCall(t) /\ ref[t] = 0
    /\ IF id = commonDBID
       THEN Reject(t, "DBVersionForID", id, version, "reserved ID")
       ELSE IF version = commonDBVersion
            THEN Reject(t, "DBVersionForID", id, version, "reserved version")
            ELSE Lookup(t, "DBVersionForID", id, version)

\* dbMapSync.Lock() of dbVersionForID
GetLock(t) ==
    /\ ~fatal /\ pc[t] = "wlock"
    /\ dbMapSync = NoThread
    /\ dbMapSync' = t
    /\ pc' = [pc EXCEPT ![t] = "create"]
    /\ ev' = NoEv
    /\ UNCHANGED <<arg, ref, txArg, sawOpen, dbMap, disk, hKey, hMutex, hFin,
                   hClosed, hStop, nextH, txH, txClosed, txDone, nextTx, debug,
                   fatal>>

\* the steps of the creation that can fail, in the order of the code
CreateSteps == {"mkdir", "open", "ping", "journal_mode", "foreign_keys"}

\* the creation fails at `step`: the error is returned, the deferred Unlock runs
CreateFail(t, step) ==
    /\ disk' = IF step = "mkdir" THEN disk ELSE disk \cup {DataDir(arg[t])}
    /\ ev' = Ev(t, "create", NoKey, NoKey, arg[t], step)
    /\ pc' = [pc EXCEPT ![t] = "idle"]
    /\ arg' = [arg EXCEPT ![t] = NoKey]
    /\ dbMapSync' = NoThread
    /\ UNCHANGED <<ref, txArg, sawOpen, dbMap, hKey, hMutex, hFin, hClosed,
                   hStop, nextH, txH, txClosed, txDone, nextTx, debug, fatal>>

\* every step succeeds: dbMap[versionedID] = &dbInfo
CreateOk(t) ==
    /\ nextH <= MaxHandles
    /\ disk' = disk \cup {DataDir(arg[t])}
    /\ hKey' = [hKey EXCEPT ![nextH] = arg[t]]
    /\ hStop' = [hStop EXCEPT ![nextH] = IF debug THEN "chan" ELSE "nil"]
    /\ dbMap' = [dbMap EXCEPT ![arg[t]] = nextH]
    /\ ref' = [ref EXCEPT ![t] = nextH]
    /\ nextH' = nextH + 1
    /\ pc' = [pc EXCEPT ![t] = "idle"]
    /\ arg' = [arg EXCEPT ![t] = NoKey]
    /\ dbMapSync' = NoThread
    /\ ev' = NoEv
    /\ UNCHANGED <<txArg, sawOpen, hMutex, hFin, hClosed, txH, txClosed,
                   txDone, nextTx, debug, fatal>>

\* dbVersionForID from the write lock on: no second look at dbMap is made
GetCreate(t) ==
    /\ ~fatal /\ pc[t] = "create"
    /\ \/ \E step \in CreateSteps : CreateFail(t, step)
       \/ CreateOk(t)

\* ----------------------------------------------------------- release calls
\* ReleaseDBForID to the end of dbMapSync.Lock()
StartRelease(t, id, version) ==
    /\ CanCall(t)
    /\ dbMapSync = NoThread
    /\ dbMapSync' = t
    /\ pc' = [pc EXCEPT ![t] = "rel_body"]
    /\ arg' = [arg EXCEPT ![t] = VersionedDBID(id, version)]
    /\ ev' = NoEv
    /\ UNCHANGED <<ref, txArg, sawOpen, dbMap, disk, hKey, hMutex, hFin,
                   hClosed, hStop, nextH, txH, txClosed, txDone, nextTx, debug,
                   fatal>>

ReleaseCommonDB(t) == StartRelease(t, commonDBID, commonDBVersion)

ReleaseDB(t, version) == StartRelease(t, commonDBID, version)

ReleaseDBForID(t, id, version) == StartRelease(t, id, version)

\* return, with the deferred dbMapSync.Unlock()
ReleaseReturn(t) ==
    /\ pc' = [pc EXCEPT ![t] = "idle"]
    /\ arg' = [arg EXCEPT ![t] = NoKey]
    /\ dbMapSync' = NoThread

\* a plausible slip: the finalizer is set but the entry is left in dbMap
ReleaseFoundKeepsEntry(t) ==
    /\ Live(arg[t])
    /\ debug => hStop[dbMap[arg[t]]] = "chan"
    /\ hFin' = [hFin EXCEPT ![dbMap[arg[t]]] = "set"]
    /\ dbMap' = dbMap
    /\ ev' = Ev(t, "release", NoKey, NoKey, arg[t], "")
    /\ ReleaseReturn(t)

\* the branch for a live handle: (debug: dbm.closed <- true, which the
\* logging goroutine receives), SetFinalizer, dbMap[versionedID] = nil
ReleaseFound(t) ==
    /\ Live(arg[t])
    /\ debug => hStop[dbMap[arg[t]]] = "chan"
    /\ hFin' = [hFin EXCEPT ![dbMap[arg[t]]] = "set"]
    /\ dbMap' = [dbMap EXCEPT ![arg[t]] = NilEntry]
    /\ ev' = Ev(t, "release", NoKey, NoKey, arg[t], "")
    /\ ReleaseReturn(t)

\* the branch for a live handle whose dbm.closed is nil, at debug level:
\* dbm.closed <- true is a send on a nil channel, which never completes;
\* the write lock stays with the caller
ReleaseBlocked(t) ==
    /\ Live(arg[t])
    /\ debug /\ hStop[dbMap[arg[t]]] = "nil"
    /\ pc' = [pc EXCEPT ![t] = "send_nil"]
    /\ ev' = NoEv
    /\ UNCHANGED <<arg, dbMapSync, hFin, dbMap>>

\* a plausible slip: the missing handle's key is deleted from dbMap
ReleaseNotFoundDeletes(t) ==
    /\ ~Live(arg[t])
    /\ ev' = Ev(t, "release", NoKey, NoKey, arg[t], "not found")
    /\ dbMap' = [dbMap EXCEPT ![arg[t]] = Absent]
    /\ UNCHANGED hFin
    /\ ReleaseReturn(t)

\* the else branch: log.Errorf("Cannot find DB handle ...")
ReleaseNotFound(t) ==
    /\ ~Live(arg[t])
    /\ ev' = Ev(t, "release", NoKey, NoKey, arg[t], "not found")
    /\ UNCHANGED <<hFin, dbMap>>
    /\ ReleaseReturn(t)

\* ReleaseDBForID under the write lock
ReleaseBody(t) ==
    /\ ~fatal /\ pc[t] = "rel_body"
    /\ \/ ReleaseFound(t)
       \/ ReleaseBlocked(t)
       \/ ReleaseNotFound(t)
    /\ UNCHANGED <<ref, txArg, sawOpen, disk, hKey, hMutex, hClosed, hStop,
                   nextH, txH, txClosed, txDone, nextTx, debug, fatal>>

\* the configured log level changes (config.GetString(logger.ConfigLevel)
\* is read anew by every get and every release)
SetLogLevel(b) ==
    /\ ~fatal
    /\ debug # b
    /\ debug' = b
    /\ ev' = NoEv
    /\ UNCHANGED <<pc, arg, ref, txArg, sawOpen, dbMap, dbMapSync, disk, hKey,
                   hMutex, hFin, hClosed, hStop, nextH, txH, txClosed, txDone,
                   nextTx, fatal>>

\* ------------------------------------------------------------ transactions
\* a caller that holds a handle calls Begin: it is about to d.mutex.Lock()
BeginCall(t) ==
    /\ CanCall(t)
    /\ ref[t] # 0
    /\ pc' = [pc EXCEPT ![t] = "begin"]
    /\ ev' = NoEv
    /\ UNCHANGED <<arg, ref, txArg, sawOpen, dbMap, dbMapSync, disk, hKey,
                   hMutex, hFin, hClosed, hStop, nextH, txH, txClosed, txDone,
                   nextTx, debug, fatal>>

\* d.db.Begin() succeeds: return &Tx{tx, d.mutex}, the mutex stays locked
BeginOk(t) ==
    /\ nextTx <= MaxTx
    /\ ~hClosed[ref[t]]
    /\ hMutex' = [hMutex EXCEPT ![ref[t]] = TRUE]
    /\ txH' = [txH EXCEPT ![nextTx] = ref[t]]
    /\ nextTx' = nextTx + 1
    /\ ev' = Ev(t, "Begin", NoKey, NoKey, NoKey, "")

\* d.db.Begin() fails: d.mutex.Unlock(); return nil, err
BeginFail(t) ==
    /\ ev' = Ev(t, "Begin", NoKey, NoKey, NoKey, "begin")
    /\ UNCHANGED <<hMutex, txH, nextTx>>

\* ApidDb.Begin from d.mutex.Lock() to its return
Begin(t) ==
    /\ ~fatal /\ pc[t] = "begin"
    /\ ~hMutex[ref[t]]
    /\ \/ BeginOk(t)
       \/ BeginFail(t)
    /\ pc' = [pc EXCEPT ![t] = "idle"]
    /\ UNCHANGED <<arg, ref, txArg, sawOpen, dbMap, dbMapSync, disk, hKey,
                   hFin, hClosed, hStop, nextH, txClosed, txDone, debug, fatal>>

\* Commit or Rollback, first half: if !tx.closed
TxCall(t, x, op) ==
    /\ CanCall(t)
    /\ x \in CreatedTx
    /\ pc' = [pc EXCEPT ![t] = op]
    /\ txArg' = [txArg EXCEPT ![t] = x]
    /\ sawOpen' = [sawOpen EXCEPT ![t] = ~txClosed[x]]
    /\ ev' = NoEv
    /\ UNCHANGED <<arg, ref, dbMap, dbMapSync, disk, hKey, hMutex, hFin,
                   hClosed, hStop, nextH, txH, txClosed, txDone, nextTx, debug,
                   fatal>>

Commit(t, x) == TxCall(t, x, "commit")

Rollback(t, x) == TxCall(t, x, "rollback")

\* Commit or Rollback, second half: tx.closed = true, tx.tx.Commit() or
\* tx.tx.Rollback() (an error when the sql.Tx is done already, or from the
\* engine), then the deferred tx.mutex.Unlock(); unlocking an unlocked
\* sync.Mutex is a fatal runtime error
TxFinish(t, engineOk) ==
    /\ ~fatal /\ pc[t] \in {"commit", "rollback"}
    /\ txClosed' = IF sawOpen[t] THEN [txClosed EXCEPT ![txArg[t]] = TRUE]
                   ELSE txClosed
    /\ txDone' = IF txDone[txArg[t]] = "open"
                 THEN [txDone EXCEPT ![txArg[t]] =
                          IF pc[t] = "commit" /\ engineOk THEN "committed"
                          ELSE "rolledback"]
                 ELSE txDone
    /\ ev' = Ev(t, pc[t], NoKey, NoKey, NoKey,
                IF txDone[txArg[t]] # "open" THEN "tx done"
                ELSE IF engineOk THEN "" ELSE "engine")
    /\ hMutex' = IF sawOpen[t] THEN [hMutex EXCEPT ![txH[txArg[t]]] = FALSE]
                 ELSE hMutex
    /\ fatal' = (sawOpen[t] /\ ~hMutex[txH[txArg[t]]])
    /\ pc' = [pc EXCEPT ![t] = "idle"]
    /\ txArg' = [txArg EXCEPT ![t] = 0]
    /\ sawOpen' = [sawOpen EXCEPT ![t] = FALSE]
    /\ UNCHANGED <<arg, ref, dbMap, dbMapSync, disk, hKey, hFin, hClosed,
                   hStop, nextH, txH, nextTx, debug>>

\* the methods of ApidDb that go straight to the sql.DB
PlainOps == {"Prepare", "Exec", "Query", "QueryRow", "QueryStructs"}

\* a plausible slip: the method takes the handle's mutex around the call
PlainOpLocked(t, op) ==
    /\ CanCall(t)
    /\ ref[t] # 0
    /\ ~hMutex[ref[t]]
    /\ \E e \in {"", "engine"} :
           /\ hClosed[ref[t]] => e = "engine"
           /\ ev' = Ev(t, op, NoKey, NoKey, NoKey, e)
    /\ UNCHANGED <<pc, arg, ref, txArg, sawOpen, dbMap, dbMapSync, disk, hKey,
                   hMutex, hFin, hClosed, hStop, nextH, txH, txClosed, txDone,
                   nextTx, debug, fatal>>

\* return d.db.Prepare / Exec / Query / QueryRow (QueryStructs: d.db.Query
\* and StructsFromRows): the sql.DB answers, with an error when it is closed
PlainOp(t, op) ==
    /\ CanCall(t)
    /\ ref[t] # 0
    /\ \E e \in {"", "engine"} :
           /\ hClosed[ref[t]] => e = "engine"
           /\ ev' = Ev(t, op, NoKey, NoKey, NoKey, e)
    /\ UNCHANGED <<pc, arg, ref, txArg, sawOpen, dbMap, dbMapSync, disk, hKey,
                   hMutex, hFin, hClosed, hStop, nextH, txH, txClosed, txDone,
                   nextTx, debug, fatal>>

\* ------------------------------------------------- references and teardown
\* the caller's variable that holds the handle goes out of scope
DropRef(t) ==
    /\ CanCall(t)
    /\ ref[t] # 0
    /\ ref' = [ref EXCEPT ![t] = 0]
    /\ ev' = NoEv
    /\ UNCHANGED <<pc, arg, txArg, sawOpen, dbMap, dbMapSync, disk, hKey,
                   hMutex, hFin, hClosed, hStop, nextH, txH, txClosed, txDone,
                   nextTx, debug, fatal>>

\* the collector finds the *ApidDb unreachable: no caller's variable and no
\* dbMapInfo points to it (a Tx points to the sql.Tx and the mutex only)
Unreachable(h) ==
    /\ \A t \in Threads : ref[t] # h
    /\ \A k \in Keys : dbMap[k] # h

\* what the teardown logged: "" when Close and RemoveAll both succeeded
TeardownErr(closeOk, removeOk) ==
    IF closeOk THEN (IF removeOk THEN "" ELSE "remove")
    ELSE (IF removeOk THEN "close" ELSE "close, remove")

\* the closure Delete(versionedID) returns, run by the finalizer goroutine:
\* db.db.Close() (the pool is closed also when it reports an error),
\* os.RemoveAll(dataDir), delete(dbMap, versionedID); errors are logged
Delete(h, closeOk, removeOk) ==
    /\ hClosed' = [hClosed EXCEPT ![h] = TRUE]
    /\ disk' = IF removeOk
               THEN {d \in disk : ~IsPrefix(DataDir(hKey[h]), d)}
               ELSE disk
    /\ dbMap' = [dbMap EXCEPT ![hKey[h]] = Absent]
    /\ ev' = Ev(NoThread, "teardown", NoKey, NoKey, hKey[h],
                TeardownErr(closeOk, removeOk))

\* delete(dbMap, ...) runs without dbMapSync: when a goroutine is inside its
\* write-locked section of get or release, the two map accesses race, and
\* the runtime may stop the process (fatal error: concurrent map writes)
MapRace == IF dbMapSync # NoThread THEN BOOLEAN ELSE {FALSE}

\* runtime.SetFinalizer(dbm.db, finalizer): runs once, when unreachable
Finalizer(h) ==
    /\ ~fatal
    /\ h \in Created
    /\ hFin[h] = "set"
    /\ Unreachable(h)
    /\ hFin' = [hFin EXCEPT ![h] = "run"]
    /\ \E closeOk, removeOk \in BOOLEAN : Delete(h, closeOk, removeOk)
    /\ fatal' \in MapRace
    /\ UNCHANGED <<pc, arg, ref, txArg, sawOpen, dbMapSync, hKey, hMutex,
                   hStop, nextH, txH, txClosed, txDone, nextTx, debug>>

\* --------------------------------------------------------- StructsFromRows
\* the result sets have two columns and at most MaxRows rows
MaxRows == 2

Field(n, tag, ty) == [name |-> n, tag |-> tag, type |-> ty]

\* the record types of the callers: the struct fields with their `db` tags
RecordTypes ==
    [Plain |-> <<Field("Id", "id", "int64"), Field("Name", "name", "string")>>,
     Nulls |-> <<Field("Id", "id", "NullInt64"),
                 Field("Name", "name", "NullString")>>,
     Mixed |-> <<Field("Id", "id", "float64"), Field("Name", "name", "bool"),
                 Field("Note", "", "string")>>,
     Blobs |-> <<Field("Id", "id", "bytes"),
                 Field("Name", "name", "NullString")>>]

TypeNames == DOMAIN RecordTypes
ColNames == {"id", "name", "extra"}
FieldNames(T) == {RecordTypes[T][i].name : i \in DOMAIN RecordTypes[T]}

Col(n, d) == [name |-> n, dbType |-> d]

\* rows.Columns() and rows.ColumnTypes() of the result sets
ColumnSets ==
    {<<Col("id", d1), Col(n2, d2)>> :
        d1 \in {"integer", "float", "blob", "datetime"},
        n2 \in {"name", "extra"},
        d2 \in {"text", "null", "blob"}}

Cell(valid, v) == [valid |-> valid, v |-> v]

\* what Scan leaves in the carrier for SQL NULL, per engine type
NullCell(d) ==
    Cell(FALSE, CASE d = "integer" -> "0" [] d = "float" -> "0.0" [] OTHER -> "")

\* the values a column of engine type d holds
Cells(d) ==
    {NullCell(d)} \cup
    (CASE d = "integer" -> {Cell(TRUE, "7")}
       [] d = "float" -> {Cell(TRUE, "1.5")}
       [] d = "text" -> {Cell(TRUE, "a")}
       [] d = "blob" -> {Cell(TRUE, "xy")}
       [] OTHER -> {})

RowsOf(cols) == {<<c1, c2>> : c1 \in Cells(cols[1].dbType),
                              c2 \in Cells(cols[2].dbType)}

SeqsUpTo(S, n) == UNION {[1 .. k -> S] : k \in 0 .. n}

\* the zero value of a struct field
Zero(ty) ==
    CASE ty = "string" -> ""
      [] ty = "int64" -> "0"
      [] ty = "float64" -> "0.0"
      [] ty = "bool" -> "false"
      [] ty = "NullInt64" -> Cell(FALSE, "0")
      [] ty = "NullFloat64" -> Cell(FALSE, "0.0")
      [] OTHER -> Cell(FALSE, "")

FieldType(T, n) ==
    RecordTypes[T][CHOOSE i \in DOMAIN RecordTypes[T] :
                      RecordTypes[T][i].name = n].type

\* reflect.New(t).Elem()
ZeroRecord(T) == [n \in FieldNames(T) |-> Zero(FieldType(T, n))]

\* the loop over t.Field(i): m[key] = f.Name for every non-empty `db` tag;
\* "" stands for a column name that is no key of m
BuildMapper(T) ==
    [c \in ColNames |->
        LET idx == {i \in DOMAIN RecordTypes[T] : RecordTypes[T][i].tag = c}
        IN  IF idx = {} THEN ""
            ELSE RecordTypes[T][CHOOSE i \in idx : \A j \in idx : j <= i].name]

NoMapper == [c \in ColNames |-> ""]

\* the switch on colTypes[i].DatabaseTypeName(): the carrier, "" for default
Carrier(d) ==
    CASE d \in {"null", "text"} -> "NullString"
      [] d = "integer" -> "NullInt64"
      [] d = "float" -> "NullFloat64"
      [] d = "blob" -> "bytes"
      [] OTHER -> ""

\* reflect.TypeOf(int64(0)).ConvertibleTo(f.Type())
Int64ConvertibleTo(ty) == ty \in {"int64", "float64", "string"}

\* reflect.TypeOf(float64(0)).ConvertibleTo(f.Type())
Float64ConvertibleTo(ty) == ty \in {"int64", "float64"}

Out(st, v) == [status |-> st, val |-> v]

\* one case of the type switch on cols[i]: the carrier c of kind k is
\* written to a field of type ty that holds old. "set": the field gets val;
\* "keep": nothing is written; "err": cannot convert; "panic": reflect's
\* SetInt / SetFloat called on a field of another kind
Assign(k, c, ty, old) ==
    CASE k = "NullString" ->
            IF ty = "NullString" THEN Out("set", c)
            ELSE IF ty = "string"
                 THEN IF c.valid THEN Out("set", c.v) ELSE Out("keep", old)
                 ELSE Out("err", old)
      [] k = "NullInt64" ->
            IF ty = "NullInt64" THEN Out("set", c)
            ELSE IF Int64ConvertibleTo(ty)
                 THEN IF c.valid
                      THEN IF ty = "int64" THEN Out("set", c.v)
                           ELSE Out("panic", old)
                      ELSE Out("keep", old)
                 ELSE Out("err", old)
      [] k = "NullFloat64" ->
            IF ty = "NullFloat64" THEN Out("set", c)
            ELSE IF Float64ConvertibleTo(ty)
                 THEN IF c.valid
                      THEN IF ty = "float64" THEN Out("set", c.v)
                           ELSE Out("panic", old)
                      ELSE Out("keep", old)
                 ELSE Out("err", old)
      [] OTHER ->
            IF ty = "bytes" THEN Out("set", c)
            ELSE IF ty = "string" THEN Out("set", c.v)
            ELSE IF ty = "NullString" THEN Out("set", Cell(c.v # "", c.v))
            ELSE Out("err", old)

RECURSIVE DecodeCols(_, _, _, _, _, _)
\* for i := range cols: the fields of v are written column by column; the
\* first column that cannot be converted ends the call
DecodeCols(T, m, cols, row, i, v) ==
    IF i > Len(cols) THEN Out("ok", v)
    ELSE LET f == m[cols[i].name]
         IN  IF f = "" \/ f \notin FieldNames(T)
             THEN DecodeCols(T, m, cols, row, i + 1, v)
             ELSE LET a == Assign(Carrier(cols[i].dbType), row[i],
                                  FieldType(T, f), v[f])
                  IN  IF a.status \in {"err", "panic"} THEN Out(a.status, v)
                      ELSE DecodeCols(T, m, cols, row, i + 1,
                                      [v EXCEPT ![f] = a.val])

\* the body of `for rows.Next()` for one scanned row
DecodeRow(T, m, cols, row) == DecodeCols(T, m, cols, row, 1, ZeroRecord(T))

VARIABLES
    mType,      \* the record type of dest's elements
    mCols,      \* the columns of rows
    mRows,      \* the rows of the result set, each a tuple of cells
    mFail,      \* where the engine fails in this call, if anywhere
    mDest0,     \* dest when StructsFromRows was called
    mDest,      \* dest
    mPc,        \* "off" | "call" | "columns" | "loop" | "done"
    mM,         \* the local m
    mSlice,     \* the local slice
    mIdx,       \* rows scanned so far
    mRet,       \* "": nil was returned; an error; "panic"
    tagFieldMapper  \* record type -> [built, m]

mapVars == <<mType, mCols, mRows, mFail, mDest0, mDest, mPc, mM, mSlice, mIdx,
             mRet, tagFieldMapper>>

\* one wrapConn and the goroutines that call it
VARIABLES
    wPc,          \* caller -> "idle" | "engine": inside the SQLiteConn call
    wOp,          \* caller -> the wrapConn method it is in, or ""
    wId,          \* caller -> the local stmtID / txID, 0 when it has none
    stmtCounter,  \* wrapConn.stmtCounter
    txCounter,    \* wrapConn.txCounter
    wConn,        \* wrapConn.SQLiteConn: which connection is embedded
    wIssued,      \* "Prepare" | "Begin" -> the ids given out so far
    wLast         \* the last return: method, id, engine error, what was
                  \* returned and the level of the log entry about it

wrapVars == <<wPc, wOp, wId, stmtCounter, txCounter, wConn, wIssued, wLast>>

\* the callers of StructsFromRows that share tagFieldMapper
VARIABLES
    cPc,      \* caller -> "idle" | "build": it found no mapper and builds one
    cType,    \* caller -> the record type of its dest
    cStores,  \* record type -> how often tagFieldMapper[t] = m has run
    cFatal    \* the runtime stopped the process (concurrent map access)

cacheVars == <<cPc, cType, cStores, cFatal>>

vars == <<regVars, mapVars, wrapVars, cacheVars>>

\* what a step of the registry, or of StructsFromRows, leaves alone
notReg == <<mapVars, wrapVars, cacheVars>>
notMap == <<regVars, wrapVars, cacheVars>>
notWrap == <<regVars, mapVars, cacheVars>>

NoFail == [at |-> "none", row |-> 0]

\* rows.Columns(), rows.ColumnTypes(), rows.Scan(), rows.Next() can each
\* fail in the engine
Fails(n) ==
    {NoFail, [at |-> "columns", row |-> 0], [at |-> "columnTypes", row |-> 0]}
    \cup {[at |-> a, row |-> i] : a \in {"scan", "next"}, i \in 1 .. n}

\* an element dest held before the call
OldValue(ty) ==
    CASE ty = "string" -> "old"
      [] ty = "int64" -> "99"
      [] ty = "float64" -> "9.9"
      [] ty = "bool" -> "true"
      [] OTHER -> Cell(TRUE, "old")

OldRecord(T) == [n \in FieldNames(T) |-> OldValue(FieldType(T, n))]

NotBuilt == [built |-> FALSE, m |-> NoMapper]
Built(T) == [built |-> TRUE, m |-> BuildMapper(T)]

\* no StructsFromRows call is in progress
MapperOff ==
    /\ mType = "Plain" /\ mCols = <<>> /\ mRows = <<>> /\ mFail = NoFail
    /\ mDest0 = <<>> /\ mDest = <<>> /\ mPc = "off" /\ mM = NoMapper
    /\ mSlice = <<>> /\ mIdx = 0 /\ mRet = ""
    /\ tagFieldMapper = [T \in TypeNames |-> NotBuilt]

NoWrapEv == [t |-> NoThread, op |-> "", id |-> 0, err |-> "", ret |-> "",
             level |-> ""]

\* a fresh wrapConn that nobody is calling
WrapOff ==
    /\ wPc = [t \in Threads |-> "idle"]
    /\ wOp = [t \in Threads |-> ""]
    /\ wId = [t \in Threads |-> 0]
    /\ stmtCounter = 0
    /\ txCounter = 0
    /\ wConn = 1
    /\ wIssued = [k \in {"Prepare", "Begin"} |-> {}]
    /\ wLast = NoWrapEv

\* no StructsFromRows call is looking at tagFieldMapper
CacheOff ==
    /\ cPc = [t \in Threads |-> "idle"]
    /\ cType = [t \in Threads |-> "Plain"]
    /\ cStores = [T \in TypeNames |-> 0]
    /\ cFatal = FALSE

Init == InitRegistry /\ MapperOff /\ WrapOff /\ CacheOff

\* a caller is about to call StructsFromRows(dest, rows); the mapper of the
\* record type may be there from an earlier call
InitMapper ==
    /\ InitRegistry
    /\ WrapOff
    /\ CacheOff
    /\ mType \in TypeNames
    /\ mCols \in ColumnSets
    /\ mRows \in SeqsUpTo(RowsOf(mCols), MaxRows)
    /\ mFail \in Fails(Len(mRows))
    /\ mDest0 \in {<<>>, <<OldRecord(mType)>>}
    /\ mDest = mDest0
    /\ mPc = "call"
    /\ mM = NoMapper
    /\ mSlice = <<>>
    /\ mIdx = 0
    /\ mRet = ""
    /\ tagFieldMapper \in {[T \in TypeNames |-> NotBuilt],
                           [T \in TypeNames |->
                               IF T = mType THEN Built(T) ELSE NotBuilt]}

\* return err / the call panics
SfrReturn(e) ==
    /\ mRet' = e
    /\ mPc' = "done"

\* m, ok := tagFieldMapper[t]; if !ok { build m; tagFieldMapper[t] = m }
SfrMapper ==
    /\ mPc = "call"
    /\ IF tagFieldMapper[mType].built
       THEN /\ mM' = tagFieldMapper[mType].m
            /\ UNCHANGED tagFieldMapper
       ELSE /\ mM' = BuildMapper(mType)
            /\ tagFieldMapper' = [tagFieldMapper EXCEPT ![mType] = Built(mType)]
    /\ mPc' = "columns"
    /\ UNCHANGED <<mType, mCols, mRows, mFail, mDest0, mDest, mSlice, mIdx,
                   mRet>>

\* rows.Columns(), rows.ColumnTypes(), slice := empty, and the loop that
\* picks the carrier of each column
SfrColumns ==
    /\ mPc = "columns"
    /\ IF mFail.at \in {"columns", "columnTypes"}
       THEN SfrReturn(mFail.at)
       ELSE IF \E i \in DOMAIN mCols : Carrier(mCols[i].dbType) = ""
            THEN SfrReturn("unsupported column type")
            ELSE /\ mPc' = "loop"
                 /\ UNCHANGED mRet
    /\ mSlice' = <<>>
    /\ UNCHANGED <<mType, mCols, mRows, mFail, mDest0, mDest, mM, mIdx,
                   tagFieldMapper>>

\* rows.Next() returns false, at the end of the rows or on an engine error
\* (rows.Err() is not read): reflect.ValueOf(dest).Elem().Set(slice);
\* return nil
SfrEnd ==
    /\ mPc = "loop"
    /\ \/ mIdx = Len(mRows)
       \/ mFail = [at |-> "next", row |-> mIdx + 1]
    /\ mDest' = mSlice
    /\ SfrReturn("")
    /\ UNCHANGED <<mType, mCols, mRows, mFail, mDest0, mM, mSlice, mIdx,
                   tagFieldMapper>>

\* a plausible slip: each record goes to dest as soon as it is decoded
SfrAppendToDest(v) ==
    /\ mSlice' = Append(mSlice, v)
    /\ mDest' = Append(mDest, v)

\* slice = reflect.Append(slice, v)
SfrAppend(v) ==
    /\ mSlice' = Append(mSlice, v)
    /\ mDest' = mDest

\* one turn of `for rows.Next()`: Scan, the type switch per column, Append
SfrRow ==
    /\ mPc = "loop"
    /\ mIdx < Len(mRows)
    /\ mFail # [at |-> "next", row |-> mIdx + 1]
    /\ IF mFail = [at |-> "scan", row |-> mIdx + 1]
       THEN /\ SfrReturn("scan")
            /\ UNCHANGED <<mSlice, mDest, mIdx>>
       ELSE LET r == DecodeRow(mType, mM, mCols, mRows[mIdx + 1])
            IN  IF r.status = "ok"
                THEN /\ SfrAppend(r.val)
                     /\ mIdx' = mIdx + 1
                     /\ UNCHANGED <<mPc, mRet>>
                ELSE /\ SfrReturn(IF r.status = "err" THEN "cannot convert"
                                  ELSE "panic")
                     /\ UNCHANGED <<mSlice, mDest, mIdx>>
    /\ UNCHANGED <<mType, mCols, mRows, mFail, mDest0, mM, tagFieldMapper>>

\* ------------------------------------------- tagFieldMapper, shared callers
\* tagFieldMapper is a plain map with no lock: an access that overlaps the
\* write of a goroutine that is building a mapper races with it, and the
\* runtime may stop the process (fatal error: concurrent map read and map
\* write / concurrent map writes)
CacheRace(t) ==
    IF \E u \in Threads \ {t} : cPc[u] = "build" THEN BOOLEAN ELSE {FALSE}

notCache == <<regVars, wrapVars, mType, mCols, mRows, mFail, mDest0, mDest,
              mPc, mM, mSlice, mIdx, mRet>>

\* StructsFromRows of one of several concurrent callers, to the end of
\* m, ok := tagFieldMapper[t]
SfrCacheLookup(t, T) ==
    /\ ~cFatal
    /\ cPc[t] = "idle"
    /\ cType' = [cType EXCEPT ![t] = T]
    /\ cPc' = [cPc EXCEPT ![t] =
                  IF tagFieldMapper[T].built THEN "idle" ELSE "build"]
    /\ cFatal' \in CacheRace(t)
    /\ UNCHANGED <<tagFieldMapper, cStores>>

\* if !ok { m = make(...); for ... { m[key] = f.Name }; tagFieldMapper[t] = m }
SfrCacheStore(t) ==
    /\ ~cFatal
    /\ cPc[t] = "build"
    /\ tagFieldMapper' = [tagFieldMapper EXCEPT ![cType[t]] = Built(cType[t])]
    /\ cStores' = [cStores EXCEPT ![cType[t]] = @ + 1]
    /\ cPc' = [cPc EXCEPT ![t] = "idle"]
    /\ cFatal' \in CacheRace(t)
    /\ UNCHANGED cType

\* ---------------------------------------------------------------- wrapConn
\* the calls made on one wrapConn are bounded
MaxIds == 3

\* what the SQLiteConn call returns as err: "" is nil
EngineErrs == {"", "busy", "misuse"}

\* atomic.AddInt64(&counter, 1)
AddInt64(counter) == counter + 1

\* Prepare or Begin up to the SQLiteConn call: the id is drawn and the
\* "begin ..." entry is logged at debug level
WrapTagged(t, op, counter) ==
    /\ wPc[t] = "idle"
    /\ counter < MaxIds
    /\ wId' = [wId EXCEPT ![t] = AddInt64(counter)]
    /\ wIssued' = [wIssued EXCEPT ![op] = @ \cup {AddInt64(counter)}]
    /\ wPc' = [wPc EXCEPT ![t] = "engine"]
    /\ wOp' = [wOp EXCEPT ![t] = op]
    /\ wLast' = NoWrapEv
    /\ UNCHANGED wConn

wrapPrepare(t) ==
    /\ WrapTagged(t, "Prepare", stmtCounter)
    /\ stmtCounter' = AddInt64(stmtCounter)
    /\ UNCHANGED txCounter

wrapBegin(t) ==
    /\ WrapTagged(t, "Begin", txCounter)
    /\ txCounter' = AddInt64(txCounter)
    /\ UNCHANGED stmtCounter

\* Close or Query up to the SQLiteConn call
WrapPlain(t, op) ==
    /\ wPc[t] = "idle"
    /\ wPc' = [wPc EXCEPT ![t] = "engine"]
    /\ wOp' = [wOp EXCEPT ![t] = op]
    /\ wLast' = NoWrapEv
    /\ UNCHANGED <<wId, stmtCounter, txCounter, wConn, wIssued>>

wrapClose(t) == WrapPlain(t, "Close")

wrapQuery(t) == WrapPlain(t, "Query")

\* the level of the entry logged when the SQLiteConn call fails:
\* log.Errorf in Prepare, Begin and Close, c.log.Debugf in Query
FailLevel(op) == IF op = "Query" THEN "debug" ELSE "error"

\* the SQLiteConn call returns e; the entry is logged; e is returned
wrapReturn(t, e) ==
    /\ wPc[t] = "engine"
    /\ wLast' = [t |-> t, op |-> wOp[t], id |-> wId[t], err |-> e, ret |-> e,
                 level |-> IF e = "" THEN "debug" ELSE FailLevel(wOp[t])]
    /\ wPc' = [wPc EXCEPT ![t] = "idle"]
    /\ wOp' = [wOp EXCEPT ![t] = ""]
    /\ wId' = [wId EXCEPT ![t] = 0]
    /\ UNCHANGED <<stmtCounter, txCounter, wConn, wIssued>>

\* a plausible slip: the counters start again with the new connection
SwapResetsCounters(cc) ==
    /\ wConn' = cc
    /\ stmtCounter' = 0
    /\ txCounter' = 0
    /\ wLast' = NoWrapEv
    /\ UNCHANGED <<wPc, wOp, wId, wIssued>>

\* c.SQLiteConn = cc
Swap(cc) ==
    /\ wConn' = cc
    /\ wLast' = NoWrapEv
    /\ UNCHANGED <<wPc, wOp, wId, stmtCounter, txCounter, wIssued>>

\* ------------------------------------------------------------ specifications
\* the registry: get, release, teardown, for every identity and version
NextRegistry ==
    \/ \E t \in Callers : DB(t) /\ UNCHANGED notReg
    \/ \E t \in Callers, id \in IdArgs : DBForID(t, id) /\ UNCHANGED notReg
    \/ \E t \in Callers, v \in VerArgs : DBVersion(t, v) /\ UNCHANGED notReg
    \/ \E t \in Callers, id \in IdArgs, v \in VerArgs :
          DBVersionForID(t, id, v) /\ UNCHANGED notReg
    \/ \E t \in Callers : GetLock(t) /\ UNCHANGED notReg
    \/ \E t \in Callers : GetCreate(t) /\ UNCHANGED notReg
    \/ \E t \in Callers : ReleaseCommonDB(t) /\ UNCHANGED notReg
    \/ \E t \in Callers, v \in VerArgs : ReleaseDB(t, v) /\ UNCHANGED notReg
    \/ \E t \in Callers, id \in IdArgs, v \in VerArgs :
          ReleaseDBForID(t, id, v) /\ UNCHANGED notReg
    \/ \E t \in Callers : ReleaseBody(t) /\ UNCHANGED notReg
    \/ \E t \in Callers : DropRef(t) /\ UNCHANGED notReg
    \/ \E h \in Handles : Finalizer(h) /\ UNCHANGED notReg

Spec == Init /\ [][NextRegistry]_vars

\* transactions on the default database, whose handle is kept
NextTx ==
    \/ \E t \in Callers : DB(t) /\ UNCHANGED notReg
    \/ \E t \in Callers : GetLock(t) /\ UNCHANGED notReg
    \/ \E t \in Callers : GetCreate(t) /\ UNCHANGED notReg
    \/ \E t \in Callers : DropRef(t) /\ UNCHANGED notReg
    \/ \E t \in Callers : BeginCall(t) /\ UNCHANGED notReg
    \/ \E t \in Callers : Begin(t) /\ UNCHANGED notReg
    \/ \E t \in Callers, x \in Txs : Commit(t, x) /\ UNCHANGED notReg
    \/ \E t \in Callers, x \in Txs : Rollback(t, x) /\ UNCHANGED notReg
    \/ \E t \in Callers, ok \in BOOLEAN : TxFinish(t, ok) /\ UNCHANGED notReg

SpecTx == Init /\ [][NextTx]_vars

\* transactions on the default database while it is released and torn down;
\* the engine commits every transaction it is asked to
NextTeardown ==
    \/ \E t \in Callers : DB(t) /\ UNCHANGED notReg
    \/ \E t \in Callers : GetLock(t) /\ UNCHANGED notReg
    \/ \E t \in Callers : GetCreate(t) /\ UNCHANGED notReg
    \/ \E t \in Callers : DropRef(t) /\ UNCHANGED notReg
    \/ \E t \in Callers : ReleaseCommonDB(t) /\ UNCHANGED notReg
    \/ \E t \in Callers : ReleaseBody(t) /\ UNCHANGED notReg
    \/ \E h \in Handles : Finalizer(h) /\ UNCHANGED notReg
    \/ \E t \in Callers : BeginCall(t) /\ UNCHANGED notReg
    \/ \E t \in Callers : Begin(t) /\ UNCHANGED notReg
    \/ \E t \in Callers, x \in Txs : Commit(t, x) /\ UNCHANGED notReg
    \/ \E t \in Callers : TxFinish(t, TRUE) /\ UNCHANGED notReg

SpecTeardown == Init /\ [][NextTeardown]_vars

\* one StructsFromRows call on every input
NextMapper ==
    \/ SfrMapper /\ UNCHANGED notMap
    \/ SfrColumns /\ UNCHANGED notMap
    \/ SfrRow /\ UNCHANGED notMap
    \/ SfrEnd /\ UNCHANGED notMap

SpecMapper == InitMapper /\ [][NextMapper]_vars

\* plain operations and transactions on the default database
NextPlain ==
    \/ \E t \in Callers : DB(t) /\ UNCHANGED notReg
    \/ \E t \in Callers : GetLock(t) /\ UNCHANGED notReg
    \/ \E t \in Callers : GetCreate(t) /\ UNCHANGED notReg
    \/ \E t \in Callers : BeginCall(t) /\ UNCHANGED notReg
    \/ \E t \in Callers : Begin(t) /\ UNCHANGED notReg
    \/ \E t \in Callers, x \in Txs : Commit(t, x) /\ UNCHANGED notReg
    \/ \E t \in Callers : TxFinish(t, TRUE) /\ UNCHANGED notReg
    \/ \E t \in Callers, op \in PlainOps : PlainOp(t, op) /\ UNCHANGED notReg

SpecPlain == Init /\ [][NextPlain]_vars

\* the state after DB() has returned the handle of the default database to
\* three goroutines
InitBegin ==
    /\ pc = [t \in Threads |-> "idle"]
    /\ arg = [t \in Threads |-> NoKey]
    /\ ref = [t \in Threads |-> 1]
    /\ txArg = [t \in Threads |-> 0]
    /\ sawOpen = [t \in Threads |-> FALSE]
    /\ dbMap = [k \in Keys |-> IF k = VersionedDBID(commonDBID, commonDBVersion)
                               THEN 1 ELSE Absent]
    /\ dbMapSync = NoThread
    /\ disk = {DataDir(VersionedDBID(commonDBID, commonDBVersion))}
    /\ hKey = [h \in Handles |->
                  IF h = 1 THEN VersionedDBID(commonDBID, commonDBVersion)
                  ELSE NoKey]
    /\ hMutex = [h \in Handles |-> FALSE]
    /\ hFin = [h \in Handles |-> "none"]
    /\ hClosed = [h \in Handles |-> FALSE]
    /\ hStop = [h \in Handles |-> "nil"]
    /\ nextH = 2
    /\ txH = [x \in Txs |-> 0]
    /\ txClosed = [x \in Txs |-> FALSE]
    /\ txDone = [x \in Txs |-> "open"]
    /\ nextTx = 1
    /\ debug = FALSE
    /\ fatal = FALSE
    /\ ev = NoEv
    /\ MapperOff /\ WrapOff /\ CacheOff

\* transactions on one handle: two goroutines begin and finish them, a
\* third only begins them
NextBegin ==
    \/ \E t \in Threads : BeginCall(t) /\ UNCHANGED notReg
    \/ \E t \in Threads : Begin(t) /\ UNCHANGED notReg
    \/ \E t \in Callers, x \in Txs : Commit(t, x) /\ UNCHANGED notReg
    \/ \E t \in Callers, x \in Txs : Rollback(t, x) /\ UNCHANGED notReg
    \/ \E t \in Callers, ok \in BOOLEAN : TxFinish(t, ok) /\ UNCHANGED notReg

\* a caller asks for the commit of transaction x, which is open
FinishOpen(x) ==
    \E t \in Callers : txDone[x] = "open" /\ Commit(t, x) /\ UNCHANGED notReg

\* a goroutine inside Commit or Rollback goes on; sync.Mutex hands the lock
\* to a waiter (starvation mode); every open transaction gets its Commit
FairBegin ==
    /\ \A t \in Threads : SF_vars(Begin(t) /\ UNCHANGED notReg)
    /\ \A t \in Callers :
           WF_vars((\E ok \in BOOLEAN : TxFinish(t, ok)) /\ UNCHANGED notReg)
    /\ \A x \in Txs : SF_vars(FinishOpen(x))

SpecBeginFair == InitBegin /\ [][NextBegin]_vars /\ FairBegin

\* the default database is created, released and torn down while the log
\* level changes
NextRelease ==
    \/ \E t \in Callers : DB(t) /\ UNCHANGED notReg
    \/ \E t \in Callers : GetLock(t) /\ UNCHANGED notReg
    \/ \E t \in Callers : GetCreate(t) /\ UNCHANGED notReg
    \/ \E t \in Callers : DropRef(t) /\ UNCHANGED notReg
    \/ \E t \in Callers : ReleaseCommonDB(t) /\ UNCHANGED notReg
    \/ \E t \in Callers : ReleaseBody(t) /\ UNCHANGED notReg
    \/ \E h \in Handles : Finalizer(h) /\ UNCHANGED notReg
    \/ \E b \in BOOLEAN : SetLogLevel(b) /\ UNCHANGED notReg

SpecRelease == Init /\ [][NextRelease]_vars

\* concurrent StructsFromRows calls (QueryStructs on handles and on
\* transactions) up to the point where each has its mapper
NextCache ==
    \/ \E t \in Callers, T \in TypeNames :
          SfrCacheLookup(t, T) /\ UNCHANGED notCache
    \/ \E t \in Callers : SfrCacheStore(t) /\ UNCHANGED notCache

SpecCache == Init /\ [][NextCache]_vars

\* the calls on one wrapConn, from two goroutines, with Swap
NextWrap ==
    \/ \E t \in Callers : wrapPrepare(t) /\ UNCHANGED notWrap
    \/ \E t \in Callers : wrapBegin(t) /\ UNCHANGED notWrap
    \/ \E t \in Callers : wrapClose(t) /\ UNCHANGED notWrap
    \/ \E t \in Callers : wrapQuery(t) /\ UNCHANGED notWrap
    \/ \E t \in Callers, e \in EngineErrs : wrapReturn(t, e) /\ UNCHANGED notWrap
    \/ \E cc \in {1, 2} : Swap(cc) /\ UNCHANGED notWrap

SpecWrap == Init /\ [][NextWrap]_vars

\* ------------------------------------------------------------------ claims
GetApis == {"DB", "DBForID", "DBVersion", "DBVersionForID"}
DefaultKey == VersionedDBID(commonDBID, commonDBVersion)
Released(h) == h \in Created /\ hFin[h] # "none"
Unreleased(h) == h \in Created /\ hFin[h] = "none"
OpenTxs(h) == {x \in CreatedTx : txH[x] = h /\ txDone[x] = "open"}

\* C1: callers that ask for a key concurrently get one handle: no two
\* handles that have not been released were created for the same key.
C1_OneHandlePerKey ==
    \A h1, h2 \in Created :
        (h1 # h2 /\ hKey[h1] = hKey[h2]) => (Released(h1) \/ Released(h2))

\* C2: on every handle, at most one transaction obtained from Begin is open
\* (neither committed nor rolled back).
C2_OneOpenTx ==
    \A h \in Created : Cardinality(OpenTxs(h)) <= 1

\* C3: a get never hands out a released handle: the handle a caller
\* receives is either the unreleased handle the registry holds for the key
\* or one created by this step; the registry never holds a released handle;
\* a release that found a handle leaves a nil entry, and a get that finds no
\* live entry goes on to create a handle.
C3_FreshAfterRelease ==
    [][/\ \A t \in Threads :
              (ref'[t] # ref[t] /\ ref'[t] # 0) =>
                  /\ hFin'[ref'[t]] = "none"
                  /\ IF ref'[t] \in Created
                     THEN hFin[ref'[t]] = "none" /\ dbMap[hKey[ref'[t]]] = ref'[t]
                     ELSE ref'[t] = nextH /\ pc[t] = "create"
       /\ \A k \in Keys : dbMap'[k] \in Handles => hFin'[dbMap'[k]] = "none"
       /\ (ev'.api = "release" /\ ev'.err = "") => dbMap'[ev'.key] = NilEntry
       /\ (ev'.api \in GetApis /\ ev'.err = "" /\ ~Live(ev'.key)) =>
              pc'[ev'.t] = "wlock" /\ arg'[ev'.t] = ev'.key]_vars

\* a caller holds a handle of a key whose earlier handle was released
C3_Witness ==
    \E t \in Threads, h \in Handles :
        /\ ref[t] \in Created
        /\ h < ref[t]
        /\ hKey[h] = hKey[ref[t]]
        /\ Released(h)

\* C4: the teardown of a released handle takes nothing from a handle of the
\* same key that was created later and has not been released: its registry
\* entry, its directory on disk and its connection pool stay as they are.
C4_TeardownSparesLater ==
    [][\A g, h \in Created :
          (hFin[g] = "set" /\ hFin'[g] = "run" /\ g < h /\ Unreleased(h)) =>
              /\ dbMap'[hKey[h]] = dbMap[hKey[h]]
              /\ DataDir(hKey[h]) \in disk => DataDir(hKey[h]) \in disk'
              /\ hClosed'[h] = hClosed[h]]_vars

\* C5: a connection pool that the teardown has closed has no open
\* transaction, and no caller holds its handle.
C5_ClosedOnlyWhenUnused ==
    \A h \in Created :
        hClosed[h] => OpenTxs(h) = {} /\ \A t \in Threads : ref[t] # h

\* C6: a get with a reserved identity or version is rejected, and a get
\* through DBForID, DBVersion or DBVersionForID that is not rejected never
\* resolves to the key of DB().
C6_ReservedRejected ==
    /\ (ev.api \in {"DBForID", "DBVersionForID"} /\ ev.id = commonDBID) =>
           ev.err = "reserved ID"
    /\ (ev.api \in {"DBVersion", "DBVersionForID"}
            /\ ev.version = commonDBVersion) => ev.err # ""
    /\ (ev.api \in GetApis \ {"DB"} /\ ev.err = "") => ev.key # DefaultKey

\* C7: a release that finds no live handle for its key returns, sets no
\* finalizer, and leaves every registry entry and the disk as they were.
C7_ReleaseNotFoundNoOp ==
    [][(ev'.api = "release" /\ ev'.err = "not found") =>
           /\ dbMap' = dbMap
           /\ hFin' = hFin
           /\ hClosed' = hClosed
           /\ disk' = disk
           /\ pc'[ev'.t] = "idle"
           /\ dbMapSync' = NoThread]_vars

\* the second release of a key has just returned
C7_Witness ==
    /\ ev.api = "release"
    /\ ev.err = "not found"
    /\ \E h \in Created : hKey[h] = ev.key /\ Released(h)
    /\ dbMap[ev.key] = NilEntry

\* C8: when the creation of a handle has just failed, the registry holds no
\* handle for the key of the failed get.
C8_NoEntryAfterFailure ==
    (ev.api = "create" /\ ev.err \in CreateSteps) => ~Live(ev.key)

\* C9: when StructsFromRows ends in any way but success, dest is what it
\* was when the call was made.
C9_DestUntouchedOnFailure ==
    (mPc = "done" /\ mRet # "") => mDest = mDest0

\* a scan failed after a record was decoded, with an element in dest
C9_Witness ==
    /\ mPc = "done"
    /\ mRet = "scan"
    /\ Len(mSlice) = 1
    /\ mDest0 # <<>>

\* C10: when StructsFromRows returns nil, dest holds the decoded record of
\* every row of the result set, in row order, and nothing else.
C10_OneRecordPerRow ==
    (mPc = "done" /\ mRet = "") =>
        /\ Len(mDest) = Len(mRows)
        /\ \A i \in DOMAIN mRows :
               mDest[i] = DecodeRow(mType, BuildMapper(mType), mCols,
                                    mRows[i]).val

\* C11: when the engine call of Prepare, Begin, Close or Query fails, the
\* wrapper returns exactly the engine's error and logs at error level.
C11_ErrorsLoggedAndReturned ==
    (wLast.op # "" /\ wLast.err # "") =>
        wLast.ret = wLast.err /\ wLast.level = "error"

\* C12: the id a Prepare (Begin) call draws has not been given to any other
\* Prepare (Begin) call on the connection and is larger than every id drawn
\* before, whatever Swap did in between.
C12_IdsUniqueAndIncreasing ==
    [][\A t \in Threads :
          (wId'[t] # wId[t] /\ wId'[t] # 0) =>
              /\ wId'[t] \notin wIssued[wOp'[t]]
              /\ \A j \in wIssued[wOp'[t]] : j < wId'[t]
              /\ \A u \in Threads \ {t} :
                     wOp[u] = wOp'[t] => wId[u] # wId'[t]]_vars

\* two Prepare calls are in the engine at once, after a Swap
C12_Witness ==
    /\ wConn = 2
    /\ \A t \in Callers : wPc[t] = "engine" /\ wOp[t] = "Prepare"
    /\ wId["t1"] # wId["t2"]
    /\ stmtCounter = MaxIds

\* C13: a caller that holds a handle can run every plain operation on it
\* whether the handle's transaction mutex is locked or not, and a plain
\* operation leaves the mutex as it is.
C13_PlainOpsSkipMutex ==
    [][/\ \A t \in Threads, op \in PlainOps :
              (CanCall(t) /\ ref[t] # 0) => ENABLED PlainOp(t, op)
       /\ ev'.api \in PlainOps => hMutex' = hMutex]_vars

\* a plain operation has succeeded on a handle with an open transaction
C13_Witness ==
    /\ ev.api \in PlainOps
    /\ ev.err = ""
    /\ hMutex[ref[ev.t]]
    /\ OpenTxs(ref[ev.t]) # {}

\* C14: a Begin call that waits for the handle's locked mutex returns in
\* the end, unless every goroutine that could finish the open transaction
\* is itself waiting in Begin.
C14_BeginReturns ==
    \A t \in Threads :
        (pc[t] = "begin" /\ hMutex[ref[t]]) ~>
            (pc[t] = "idle" \/ \A u \in Callers : pc[u] = "begin")

\* C20: a Commit or Rollback that unlocks the handle's mutex is the first
\* one to do so for its transaction, and the runtime never stops the
\* process for the unlock of an unlocked mutex.
C20_UnlockedOncePerTx ==
    [][/\ \A t \in Threads :
              (pc[t] \in {"commit", "rollback"} /\ pc'[t] = "idle"
                  /\ sawOpen[t]) => ~txClosed[txArg[t]]
       /\ ~fatal']_vars

\* C15: every step that writes dbMap is made by the goroutine that holds
\* the registry's write lock, which it gives back when it returns.
C15_MapWritesUnderLock ==
    [][dbMap' # dbMap =>
           dbMapSync \in Threads /\ pc'[dbMapSync] = "idle"
               /\ dbMapSync' = NoThread]_vars

\* C16: a teardown removes the registry entry whatever Close and RemoveAll
\* answered, removes the directory unless RemoveAll failed, disturbs no
\* caller, and leaves the process running.
C16_TeardownGoesOn ==
    [][ev'.api = "teardown" =>
           /\ dbMap'[ev'.key] = Absent
           /\ ev'.err \in {"", "close"} => DataDir(ev'.key) \notin disk'
           /\ pc' = pc /\ ref' = ref /\ dbMapSync' = dbMapSync
           /\ ~fatal']_vars

\* C19: no release call is ever stuck in the send on dbm.closed with the
\* registry's write lock in its hands.
C19_ReleaseReturns ==
    \A t \in Threads : pc[t] # "send_nil"

\* C17: the mapper of a record type is stored in tagFieldMapper at most
\* once, and no access to tagFieldMapper races with a write of it.
C17_MapperBuiltOnce ==
    /\ \A T \in TypeNames : cStores[T] <= 1
    /\ ~cFatal

\* C18: decoding never ends in a panic: a column either goes into its field
\* or the call returns the cannot-convert error.
C18_DecodeNeverPanics ==
    mPc = "done" => mRet # "panic"

====
